---- MODULE Spec2Model ----
(***************************************************************************)
(* The Nassau Candy profitability dashboard (src/app.py): one Streamlit    *)
(* script, executed top to bottom once when the session opens and again on *)
(* every widget interaction.  The state is the CSV file, the memoized      *)
(* load, the four sidebar widgets, and what the last run computed.         *)
(*                                                                         *)
(* Amounts are integers (exact arithmetic); a ratio is a pair <<n, d>> in  *)
(* lowest terms, with d = 0 for the IEEE results of a division by zero:    *)
(* <<1, 0>> is inf, <<-1, 0>> is -inf and <<0, 0>> is NaN.                   *)
(***************************************************************************)
EXTENDS Integers, Sequences, FiniteSets

VARIABLES file,              \* the CSV file's rows
          cache,             \* what st.cache_data memoizes for load_data()
          reads,             \* how many times the file has been read
          date_range,        \* the four sidebar widgets
          divisions,
          margin_threshold,
          search_term,
          df,                \* the last run's frame, derived columns added
          out,               \* what the last run computed and showed
          first,             \* what the first run computed and showed
          touched            \* whether a widget has been changed since the first run

vars == <<file, cache, reads, date_range, divisions, margin_threshold,
          search_term, df, out, first, touched>>

(***************************************************************************)
(* Bounds of the model.                                                    *)
(***************************************************************************)
MaxRows == 2
MaxDate == 2
MaxTermLen == 1

(***************************************************************************)
(* Values.                                                                 *)
(***************************************************************************)
\* pd.NaT: what a malformed or empty date cell is coerced to.
NaT == 0

\* An empty CSV cell of a text column is read as a missing value (NaN).
NaText == ""
NaName == <<>>

\* The slider's range and default: st.sidebar.slider(..., 0, 100, 20).
MinThreshold == 0
MaxThreshold == 100
DefaultThreshold == 20

ThresholdValues == {MinThreshold, DefaultThreshold, MaxThreshold}

\* Characters in code-point order: '(' 40, '.' 46, 'A' 65, 'B' 66, 'a' 97, 'b' 98.
Alphabet == <<"(", ".", "A", "B", "a", "b">>

Ord(c) == CHOOSE i \in 1..Len(Alphabet) : Alphabet[i] = c

Lower(c) == IF c = "A" THEN "a" ELSE IF c = "B" THEN "b" ELSE c

\* Division names in sorted order (the order groupby lists its keys in).
DivisionOrder == <<"Chocolate", "Other", "Sugar">>

DivisionRank(d) == CHOOSE i \in 1..Len(DivisionOrder) : DivisionOrder[i] = d

\* Text of a well-formed date cell, by the day it denotes.
DateText == <<"1", "2", "3", "4", "5", "6", "7", "8", "9">>

(***************************************************************************)
(* Arithmetic of the ratio columns.                                        *)
(***************************************************************************)
Abs(x) == IF x < 0 THEN -x ELSE x

Sign(x) == IF x > 0 THEN 1 ELSE IF x < 0 THEN -1 ELSE 0

RECURSIVE Gcd(_, _)
Gcd(a, b) == IF b = 0 THEN a ELSE Gcd(b, a % b)

\* The mark of a division that raised instead of returning a value.
ZeroDivisionError == <<0, -1>>

\* a / b as Python divides two numbers: a zero divisor raises.
TrueDivRaising(a, b) ==
    IF b = 0 THEN ZeroDivisionError
    ELSE LET g == Gcd(Abs(a), Abs(b)) IN <<(Sign(b) * a) \div g, Abs(b) \div g>>

\* a / b as pandas divides two numeric columns: a zero divisor gives inf, -inf or
\* NaN and raises nothing.
TrueDiv(a, b) ==
    IF b = 0 THEN <<Sign(a), 0>>
    ELSE LET g == Gcd(Abs(a), Abs(b)) IN <<(Sign(b) * a) \div g, Abs(b) \div g>>

IsNaN(v) == v = <<0, 0>>

IsFinite(v) == v[2] # 0

Undefined(v) == v \in {<<1, 0>>, <<-1, 0>>, <<0, 0>>}

\* x >= y on floats: false when either side is NaN.
Geq(x, y) ==
    /\ ~IsNaN(x)
    /\ ~IsNaN(y)
    /\ \/ x = y
       \/ x = <<1, 0>>
       \/ y = <<-1, 0>>
       \/ IsFinite(x) /\ IsFinite(y) /\ x[1] * y[2] >= y[1] * x[2]

(***************************************************************************)
(* The CSV file: one record per transaction, cells as read from the file.  *)
(***************************************************************************)
Row(od, dv, pn, s, c, gp, u) ==
    [OrderDate |-> od, ShipDate |-> od, Division |-> dv, ProductName |-> pn,
     Sales |-> s, Cost |-> c, GrossProfit |-> gp, Units |-> u]

\* pd.to_datetime(column, errors="coerce") on one cell.
to_datetime(cell) ==
    IF \E d \in 1..Len(DateText) : DateText[d] = cell
    THEN CHOOSE d \in 1..Len(DateText) : DateText[d] = cell
    ELSE NaT

\* The body of load_data: read the file and coerce the two date columns.
load_data(f) ==
    [i \in 1..Len(f) |->
        [f[i] EXCEPT !.OrderDate = to_datetime(@), !.ShipDate = to_datetime(@)]]

\* @st.cache_data: the body runs only when nothing is memoized yet.
MustRead(c) == c = <<>>

\* The memo sharing its frame with the caller: the run's new columns land in it.
MemoAliased(c, d) == d

\* What the memo holds after a run that worked on frame d: st.cache_data hands
\* every caller its own copy, so the run's column assignments do not reach it.
MemoAfterRun(c, d) == c

\* Lines 33-34: the two per-row ratio columns.
WithDerived(r) ==
    [OrderDate |-> r.OrderDate, ShipDate |-> r.ShipDate, Division |-> r.Division,
     ProductName |-> r.ProductName, Sales |-> r.Sales, Cost |-> r.Cost,
     GrossProfit |-> r.GrossProfit, Units |-> r.Units,
     GrossMarginPct |-> TrueDiv(r.GrossProfit, r.Sales),
     ProfitPerUnit |-> TrueDiv(r.GrossProfit, r.Units)]

DerivedMetrics(loaded) == [i \in 1..Len(loaded) |-> WithDerived(loaded[i])]

(***************************************************************************)
(* Sidebar defaults.                                                       *)
(***************************************************************************)
ValidDates(d) == {d[i].OrderDate : i \in 1..Len(d)} \ {NaT}

\* Series.min() and .max() skip missing values.
min_date(d) == CHOOSE x \in ValidDates(d) : \A y \in ValidDates(d) : x <= y

max_date(d) == CHOOSE x \in ValidDates(d) : \A y \in ValidDates(d) : x >= y

\* df["Division"].unique(): every distinct cell, the missing value included.
DivisionOptions(d) == {d[i].Division : i \in 1..Len(d)}

(***************************************************************************)
(* Lines 60-64: the filter.                                                *)
(***************************************************************************)
\* Comparisons with NaT are false.
DateGeq(a, b) == a # NaT /\ b # NaT /\ a >= b

DateLeq(a, b) == a # NaT /\ b # NaT /\ a <= b

\* The mask without its division term.
FilterMaskNoDivision(r, dr, divs, thr) ==
    /\ DateGeq(r.OrderDate, dr[1])
    /\ DateLeq(r.OrderDate, dr[2])

\* The mask with an exclusive end date.
FilterMaskExclusiveEnd(r, dr, divs, thr) ==
    /\ DateGeq(r.OrderDate, dr[1])
    /\ DateLeq(r.OrderDate, dr[2])
    /\ r.OrderDate # dr[2]
    /\ r.Division \in divs

\* The mask with the slider applied: rows of a margin under thr percent dropped.
FilterMaskWithThreshold(r, dr, divs, thr) ==
    /\ DateGeq(r.OrderDate, dr[1])
    /\ DateLeq(r.OrderDate, dr[2])
    /\ r.Division \in divs
    /\ Geq(r.GrossMarginPct, <<thr, MaxThreshold>>)

\* The mask of lines 61-63.  margin_threshold (thr) is in scope and not used.
FilterMask(r, dr, divs, thr) ==
    /\ DateGeq(r.OrderDate, dr[1])
    /\ DateLeq(r.OrderDate, dr[2])
    /\ r.Division \in divs

RECURSIVE filtered_df(_, _, _, _)
filtered_df(d, dr, divs, thr) ==
    IF d = <<>> THEN <<>>
    ELSE IF FilterMask(Head(d), dr, divs, thr)
         THEN <<Head(d)>> \o filtered_df(Tail(d), dr, divs, thr)
         ELSE filtered_df(Tail(d), dr, divs, thr)

(***************************************************************************)
(* groupby(key, as_index=False).agg(sum): one row per distinct key that is *)
(* not missing, in the keys' sorted order.                                 *)
(***************************************************************************)
RECURSIVE NameLess(_, _)
NameLess(a, b) ==
    IF b = <<>> THEN FALSE
    ELSE IF a = <<>> THEN TRUE
    ELSE IF Ord(Head(a)) # Ord(Head(b)) THEN Ord(Head(a)) < Ord(Head(b))
    ELSE NameLess(Tail(a), Tail(b))

RECURSIVE SortedNames(_)
SortedNames(S) ==
    IF S = {} THEN <<>>
    ELSE LET m == CHOOSE x \in S : \A y \in S \ {x} : NameLess(x, y)
         IN <<m>> \o SortedNames(S \ {m})

RECURSIVE SortedDivisions(_)
SortedDivisions(S) ==
    IF S = {} THEN <<>>
    ELSE LET m == CHOOSE x \in S : \A y \in S : DivisionRank(x) <= DivisionRank(y)
         IN <<m>> \o SortedDivisions(S \ {m})

\* The groups keyed by a missing value, which groupby drops by default.
ProductKeysKeepingNa(rows) == {rows[i].ProductName : i \in 1..Len(rows)}

ProductKeys(rows) == {rows[i].ProductName : i \in 1..Len(rows)} \ {NaName}

DivisionKeys(rows) == {rows[i].Division : i \in 1..Len(rows)} \ {NaText}

\* The sum of column col over the rows whose column by holds key.
RECURSIVE GroupSum(_, _, _, _)
GroupSum(rows, by, key, col) ==
    IF rows = <<>> THEN 0
    ELSE (IF Head(rows)[by] = key THEN Head(rows)[col] ELSE 0)
         + GroupSum(Tail(rows), by, key, col)

\* The summary taking each ratio from the group's first row (agg "first").
ProductRowFirstRatio(rows, k) ==
    LET one == CHOOSE i \in 1..Len(rows) :
                   /\ rows[i].ProductName = k
                   /\ \A j \in 1..(i - 1) : rows[j].ProductName # k
    IN [ProductName |-> k,
        Sales |-> GroupSum(rows, "ProductName", k, "Sales"),
        GrossProfit |-> GroupSum(rows, "ProductName", k, "GrossProfit"),
        Units |-> GroupSum(rows, "ProductName", k, "Units"),
        GrossMarginPct |-> rows[one].GrossMarginPct,
        ProfitPerUnit |-> rows[one].ProfitPerUnit]

\* Lines 71-86: one product's row of product_summary.
ProductRow(rows, k) ==
    LET s == GroupSum(rows, "ProductName", k, "Sales")
        gp == GroupSum(rows, "ProductName", k, "GrossProfit")
        u == GroupSum(rows, "ProductName", k, "Units")
    IN [ProductName |-> k, Sales |-> s, GrossProfit |-> gp, Units |-> u,
        GrossMarginPct |-> TrueDiv(gp, s),
        ProfitPerUnit |-> TrueDiv(gp, u)]

product_summary(rows) ==
    LET keys == SortedNames(ProductKeys(rows))
    IN [i \in 1..Len(keys) |-> ProductRow(rows, keys[i])]

\* Lines 98-109: one division's row of division_summary.
DivisionRow(rows, k) ==
    LET s == GroupSum(rows, "Division", k, "Sales")
        gp == GroupSum(rows, "Division", k, "GrossProfit")
    IN [Division |-> k, Sales |-> s, GrossProfit |-> gp,
        GrossMarginPct |-> TrueDiv(gp, s)]

division_summary(rows) ==
    LET keys == SortedDivisions(DivisionKeys(rows))
    IN [i \in 1..Len(keys) |-> DivisionRow(rows, keys[i])]

\* Lines 127-137: one product's row of cost_df.
CostRow(rows, k) ==
    LET s == GroupSum(rows, "ProductName", k, "Sales")
        c == GroupSum(rows, "ProductName", k, "Cost")
        gp == GroupSum(rows, "ProductName", k, "GrossProfit")
    IN [ProductName |-> k, Sales |-> s, Cost |-> c, GrossProfit |-> gp,
        GrossMarginPct |-> TrueDiv(gp, s)]

cost_df(rows) ==
    LET keys == SortedNames(ProductKeys(rows))
    IN [i \in 1..Len(keys) |-> CostRow(rows, keys[i])]

(***************************************************************************)
(* Lines 155-163: the Pareto table.                                        *)
(***************************************************************************)
\* Insert row r into a sequence sorted descending by Gross Profit, after the rows
\* of equal profit (the order sort_values leaves ties in on short frames).
RECURSIVE InsertDesc(_, _)
InsertDesc(sorted, r) ==
    IF sorted = <<>> THEN <<r>>
    ELSE IF Head(sorted).GrossProfit >= r.GrossProfit
         THEN <<Head(sorted)>> \o InsertDesc(Tail(sorted), r)
         ELSE <<r>> \o sorted

RECURSIVE SortDescFrom(_, _)
SortDescFrom(sorted, rest) ==
    IF rest = <<>> THEN sorted
    ELSE SortDescFrom(InsertDesc(sorted, Head(rest)), Tail(rest))

\* sort_values("Gross Profit", ascending=False).
SortDesc(ps) == SortDescFrom(<<>>, ps)

\* cumsum(): the running total up to and including row i.
RECURSIVE CumSum(_, _)
CumSum(ps, i) == IF i = 0 THEN 0 ELSE ps[i].GrossProfit + CumSum(ps, i - 1)

\* The column without the running total: each row's own profit.
CumulativeProfitOwn(sorted, i) == sorted[i].GrossProfit

\* Line 161: pareto_df["Gross Profit"].cumsum() at row i.
CumulativeProfit(sorted, i) == CumSum(sorted, i)

RECURSIVE SumProfit(_)
SumProfit(rows) ==
    IF rows = <<>> THEN 0 ELSE Head(rows).GrossProfit + SumProfit(Tail(rows))

\* Normalising by the largest profit instead of the total.
total_profit_first(sorted) == IF sorted = <<>> THEN 0 ELSE sorted[1].GrossProfit

\* Line 162: pareto_df["Gross Profit"].sum().
total_profit(sorted) == SumProfit(sorted)

pareto_df(ps) ==
    LET sorted == SortDesc(ps)
    IN [i \in 1..Len(sorted) |->
           [ProductName |-> sorted[i].ProductName,
            GrossProfit |-> sorted[i].GrossProfit,
            CumulativeProfit |-> CumulativeProfit(sorted, i),
            CumulativeProfitPct |->
                TrueDiv(CumulativeProfit(sorted, i), total_profit(sorted))]]

(***************************************************************************)
(* Lines 182-192: the product search.                                      *)
(***************************************************************************)
\* Series.str.contains(term, case=False) takes term as a regular expression
\* (regex=True is the default).  Over this alphabet: '.' matches any character,
\* '(' opens a group that nothing closes, so the pattern does not compile, and
\* every other character matches itself, letter case ignored.
re_compiles(term) == \A j \in 1..Len(term) : term[j] # "("

PatternCharMatches(p, c) == p = "." \/ Lower(p) = Lower(c)

str_contains(name, term) ==
    \E off \in 0..(Len(name) - Len(term)) :
        \A j \in 1..Len(term) : PatternCharMatches(term[j], name[off + j])

RECURSIVE search_results(_, _)
search_results(ps, term) ==
    IF ps = <<>> THEN <<>>
    ELSE IF str_contains(Head(ps).ProductName, term)
         THEN <<Head(ps)>> \o search_results(Tail(ps), term)
         ELSE search_results(Tail(ps), term)

(***************************************************************************)
(* One execution of the script, top to bottom.                             *)
(***************************************************************************)
Headers == <<"Product Profitability Overview", "Division Performance Dashboard",
             "Cost vs Margin Diagnostics", "Profit Concentration Analysis">>

AllSections == {Headers[i] : i \in 1..Len(Headers)}

\* The ratio columns of lines 33-34, and those of the tables.
FrameRatios(frame) ==
    {frame[i].GrossMarginPct : i \in 1..Len(frame)}
    \cup {frame[i].ProfitPerUnit : i \in 1..Len(frame)}

TableRatios(ps, ds, cd, pd) ==
    {ps[i].GrossMarginPct : i \in 1..Len(ps)}
    \cup {ps[i].ProfitPerUnit : i \in 1..Len(ps)}
    \cup {ds[i].GrossMarginPct : i \in 1..Len(ds)}
    \cup {cd[i].GrossMarginPct : i \in 1..Len(cd)}
    \cup {pd[i].CumulativeProfitPct : i \in 1..Len(pd)}

NothingRendered(why) ==
    [status |-> why, sections |-> {}, filtered_df |-> <<>>,
     product_summary |-> <<>>, division_summary |-> <<>>, cost_df |-> <<>>,
     pareto_df |-> <<>>, total_profit |-> 0, search_shown |-> FALSE, search_results |-> <<>>]

\* What a run over frame (the loaded rows with their derived columns) computes and
\* shows under the widget values dr, divs, thr and term.  An exception stops the
\* run where it is raised.
Script(frame, dr, divs, thr, term) ==
    IF ZeroDivisionError \in FrameRatios(frame)
    THEN NothingRendered("ZeroDivisionError")
    ELSE IF Len(dr) < 2
    THEN \* date_range[1] on a one-element tuple: the run stops at line 62.
         NothingRendered("IndexError")
    ELSE LET fdf == filtered_df(frame, dr, divs, thr)
             ps == product_summary(fdf)
             ds == division_summary(fdf)
             cd == cost_df(fdf)
             pd == pareto_df(ps)
         IN IF ZeroDivisionError \in TableRatios(ps, ds, cd, pd)
            THEN NothingRendered("ZeroDivisionError")
            ELSE [status |-> IF term # <<>> /\ ~re_compiles(term)
                             THEN "re.error" ELSE "ok",
                  sections |-> AllSections,
                  filtered_df |-> fdf,
                  product_summary |-> ps,
                  division_summary |-> ds,
                  cost_df |-> cd,
                  pareto_df |-> pd,
                  total_profit |-> total_profit(SortDesc(ps)),
                  search_shown |-> term # <<>> /\ re_compiles(term),
                  search_results |-> IF term # <<>> /\ re_compiles(term)
                                     THEN search_results(ps, term) ELSE <<>>]

(***************************************************************************)
(* The inputs of the model.                                                *)
(***************************************************************************)
SeqsUpTo(S, n) == UNION {[1..k -> S] : k \in 1..n}

\* The default date range needs a date: files with no well-formed Order Date
\* are left out.
WithAValidDate(F) == {f \in F : \E i \in 1..Len(f) : to_datetime(f[i].OrderDate) # NaT}

\* Date cells: two well-formed ones, and a malformed one.
DateCells == {DateText[1], DateText[2], "x"}

KeyNames == {<<"A", "b">>, <<"b", ".", "a">>}

\* Files whose rows differ in date, division and product together.
SessionRows ==
    {Row(DateText[1], "Chocolate", <<"A", "b">>, 2, 1, 1, 1),
     Row(DateText[2], "Chocolate", <<"A", "b">>, 2, 1, 1, 1),
     Row(DateText[2], "Sugar", <<"b", ".", "a">>, 2, 1, 1, 1),
     Row("x", "Sugar", <<"b", ".", "a">>, 2, 1, 1, 1)}

SessionFiles == WithAValidDate(SeqsUpTo(SessionRows, MaxRows))

\* Files that vary the date, the division and the product of the rows.
KeyRows ==
    {Row(od, dv, pn, 2, 1, 1, 1) :
        od \in DateCells, dv \in {"Chocolate", "Sugar"}, pn \in KeyNames}

KeyFiles == WithAValidDate(SeqsUpTo(KeyRows, MaxRows))

\* Files that vary the amounts of the rows: <<Sales, Gross Profit, Units>>.
MarginAmounts ==
    {<<2, 1, 1>>, <<1, 1, 0>>, <<1, -1, 1>>, <<0, 1, 1>>, <<0, 0, 1>>, <<0, -1, 0>>}

MarginRows ==
    {Row(od, "Chocolate", pn, a[1], 1, a[2], a[3]) :
        od \in {DateText[1], DateText[2]}, pn \in KeyNames, a \in MarginAmounts}

MarginFiles == SeqsUpTo(MarginRows, MaxRows)

\* Files that vary the profits, and leave key cells empty.
ParetoRows ==
    {Row(DateText[1], dv, pn, 2, 1, gp, 1) :
        dv \in {"Chocolate", NaText}, pn \in KeyNames \cup {NaName}, gp \in {-1, 0, 2}}

ParetoFiles == SeqsUpTo(ParetoRows, MaxRows)

\* What the user can enter in the widgets.  The date picker hands the script a
\* one-element tuple while only the start of a range is chosen, and a start that
\* is no later than the end otherwise.
DateRanges ==
    {<<s>> : s \in 1..MaxDate}
    \cup {<<s, e>> : <<s, e>> \in {p \in (1..MaxDate) \X (1..MaxDate) : p[1] <= p[2]}}

SearchChars == {"A", ".", "("}

SearchTerms == UNION {[1..k -> SearchChars] : k \in 0..MaxTermLen}

(***************************************************************************)
(* The state machine.                                                      *)
(***************************************************************************)
NotStarted == NothingRendered("none")

InitOn(F) ==
    /\ file \in F
    /\ cache = <<>>
    /\ reads = 0
    /\ date_range = <<>>
    /\ divisions = {}
    /\ margin_threshold = DefaultThreshold
    /\ search_term = <<>>
    /\ df = <<>>
    /\ out = NotStarted
    /\ first = NotStarted
    /\ touched = FALSE

Init == InitOn(SessionFiles)

InitFilter == InitOn(KeyFiles)

InitMargins == InitOn(MarginFiles)

InitPareto == InitOn(ParetoFiles)

\* load_data() and lines 33-34, then the rest of the script under the widget
\* values given.
RunScript(dr, divs, thr, term) ==
    LET loaded == IF MustRead(cache) THEN load_data(file) ELSE cache
        frame == DerivedMetrics(loaded)
    IN /\ reads' = IF MustRead(cache) THEN reads + 1 ELSE reads
       /\ cache' = MemoAfterRun(loaded, frame)
       /\ df' = frame
       /\ date_range' = dr
       /\ divisions' = divs
       /\ margin_threshold' = thr
       /\ search_term' = term
       /\ out' = Script(frame, dr, divs, thr, term)
       /\ file' = file

\* The session opens: the first run, every widget at its default.
Start ==
    /\ out.status = "none"
    /\ LET frame == DerivedMetrics(load_data(file))
       IN /\ RunScript(<<min_date(frame), max_date(frame)>>,
                       DivisionOptions(frame), DefaultThreshold, <<>>)
          /\ first' = out'
          /\ touched' = FALSE

SetDateRange(dr) ==
    /\ out.status # "none"
    /\ dr # date_range
    /\ RunScript(dr, divisions, margin_threshold, search_term)
    /\ UNCHANGED first
    /\ touched' = TRUE

SetDivisions(divs) ==
    /\ out.status # "none"
    /\ divs # divisions
    /\ RunScript(date_range, divs, margin_threshold, search_term)
    /\ UNCHANGED first
    /\ touched' = TRUE

SetThreshold(thr) ==
    /\ out.status # "none"
    /\ thr # margin_threshold
    /\ RunScript(date_range, divisions, thr, search_term)
    /\ UNCHANGED first
    /\ touched' = TRUE

\* The search box is drawn at line 182, after the filter: a run that stopped at
\* the filter shows none.
SetSearch(term) ==
    /\ out.status \in {"ok", "re.error"}
    /\ term # search_term
    /\ RunScript(date_range, divisions, margin_threshold, term)
    /\ UNCHANGED first
    /\ touched' = TRUE

\* A rerun with no widget changed.
Rerun ==
    /\ out.status # "none"
    /\ RunScript(date_range, divisions, margin_threshold, search_term)
    /\ UNCHANGED <<first, touched>>

Next ==
    \/ Start
    \/ \E dr \in DateRanges : SetDateRange(dr)
    \/ \E divs \in SUBSET DivisionOptions(df) : SetDivisions(divs)
    \/ \E thr \in ThresholdValues : SetThreshold(thr)
    \/ \E term \in SearchTerms : SetSearch(term)
    \/ Rerun

\* The interactions with the two filter widgets alone: the slider untouched, the
\* search box left empty.
NextFilter ==
    \/ Start
    \/ \E dr \in DateRanges : SetDateRange(dr)
    \/ \E divs \in SUBSET DivisionOptions(df) : SetDivisions(divs)
    \/ Rerun

\* Every interaction, over a few files of differing dates, divisions and products.
Spec == Init /\ [][Next]_vars

\* The filter interactions, over the files that vary dates, divisions and products.
SpecFilter == InitFilter /\ [][NextFilter]_vars

\* The filter interactions, over the files that vary the amounts.
SpecMargins == InitMargins /\ [][NextFilter]_vars

\* The filter interactions, over the files that vary profits and leave cells empty.
SpecPareto == InitPareto /\ [][NextFilter]_vars

(***************************************************************************)
(* Properties.                                                             *)
(***************************************************************************)
\* The last run got past the filter and drew its tables.
Rendered == out.status \in {"ok", "re.error"}

\* The sum of column col over the rows of the index set S.
RECURSIVE SumOver(_, _, _)
SumOver(S, rows, col) ==
    IF S = {} THEN 0
    ELSE LET i == CHOOSE x \in S : TRUE
         IN rows[i][col] + SumOver(S \ {i}, rows, col)

Total(rows, col) == SumOver(1..Len(rows), rows, col)

\* The rows of the index set S, in the frame's order.
RECURSIVE RowsAt(_, _, _)
RowsAt(rows, S, i) ==
    IF i > Len(rows) THEN <<>>
    ELSE (IF i \in S THEN <<rows[i]>> ELSE <<>>) \o RowsAt(rows, S, i + 1)

\* v is a / b: the exact quotient, or inf, -inf, NaN by the sign of a when b is 0.
IsQuotient(v, a, b) ==
    IF b = 0 THEN v = <<Sign(a), 0>>
    ELSE v[2] > 0 /\ v[1] * b = a * v[2]

\* C1: in every run that draws its tables, the product summary has one row per
\* product of the filtered rows, and its Gross Margin % is the sum of that
\* product's filtered Gross Profit divided by the sum of its filtered Sales.
Thm_C1_MarginIsRatioOfSums ==
    Rendered =>
        LET fdf == out.filtered_df
            ps == out.product_summary
        IN /\ {ps[i].ProductName : i \in 1..Len(ps)}
                = {fdf[j].ProductName : j \in 1..Len(fdf)} \ {NaName}
           /\ \A i \in 1..Len(ps) :
                LET mine == {j \in 1..Len(fdf) : fdf[j].ProductName = ps[i].ProductName}
                IN IsQuotient(ps[i].GrossMarginPct,
                              SumOver(mine, fdf, "GrossProfit"),
                              SumOver(mine, fdf, "Sales"))

\* A product with two filtered rows whose own margins both differ from the
\* product's margin.
Wit_C1_TwoRowsOtherMargins ==
    /\ Rendered
    /\ \E i \in 1..Len(out.product_summary) :
        LET p == out.product_summary[i]
            mine == {j \in 1..Len(out.filtered_df) :
                        out.filtered_df[j].ProductName = p.ProductName}
        IN /\ Cardinality(mine) >= 2
           /\ IsFinite(p.GrossMarginPct)
           /\ \A j \in mine : out.filtered_df[j].GrossMarginPct # p.GrossMarginPct

NonDecreasing(pd) ==
    \A i \in 2..Len(pd) : Geq(pd[i].CumulativeProfitPct, pd[i - 1].CumulativeProfitPct)

\* The Pareto table lists the product summary's rows, largest profit first.
RankedDescending(pd, ps) ==
    /\ Len(pd) = Len(ps)
    /\ {<<pd[i].ProductName, pd[i].GrossProfit>> : i \in 1..Len(pd)}
         = {<<ps[i].ProductName, ps[i].GrossProfit>> : i \in 1..Len(ps)}
    /\ \A i \in 2..Len(pd) : pd[i - 1].GrossProfit >= pd[i].GrossProfit

\* C2 as stated: for every filtered data set the Cumulative Profit % sequence is
\* non-decreasing down the ranking.
Cex_C2_AlwaysNonDecreasing == Rendered => NonDecreasing(out.pareto_df)

\* C2 amended: the Pareto table ranks the products by profit, descending, and
\* the Cumulative Profit % sequence is non-decreasing whenever the total profit
\* is not zero and every product after the first has a profit that is zero or of
\* the total's sign.
Thm_C2_NonDecreasingWhenSameSign ==
    Rendered =>
        LET pd == out.pareto_df
        IN /\ RankedDescending(pd, out.product_summary)
           /\ (/\ out.total_profit # 0
               /\ \A i \in 2..Len(pd) : pd[i].GrossProfit * out.total_profit >= 0)
              => NonDecreasing(pd)

\* Two products of positive profit: the share rises strictly to the second.
Wit_C2_RisingShare ==
    /\ Rendered
    /\ Len(out.pareto_df) = 2
    /\ out.pareto_df[2].GrossProfit > 0
    /\ out.pareto_df[1].CumulativeProfitPct # out.pareto_df[2].CumulativeProfitPct
    /\ NonDecreasing(out.pareto_df)

\* C3 as stated: for every filtered data set the last product's Cumulative
\* Profit % is 1.0.
Cex_C3_LastIsOne ==
    (Rendered /\ out.pareto_df # <<>>) =>
        out.pareto_df[Len(out.pareto_df)].CumulativeProfitPct = <<1, 1>>

\* C3 amended: the cumulative sum at the last rank is the total profit, so the
\* last Cumulative Profit % is 1.0 when the total profit is not zero, and NaN
\* when it is zero.
Thm_C3_LastIsOneWhenTotalNonZero ==
    (Rendered /\ out.pareto_df # <<>>) =>
        LET last == out.pareto_df[Len(out.pareto_df)]
        IN /\ last.CumulativeProfit = out.total_profit
           /\ out.total_profit # 0 => last.CumulativeProfitPct = <<1, 1>>
           /\ out.total_profit = 0 => IsNaN(last.CumulativeProfitPct)

\* Two products, a total that is not zero, and a first share other than 1.0.
Wit_C3_TwoProducts ==
    /\ Rendered
    /\ Len(out.pareto_df) = 2
    /\ out.total_profit # 0
    /\ out.pareto_df[1].CumulativeProfitPct # <<1, 1>>
    /\ out.pareto_df[2].CumulativeProfitPct = <<1, 1>>

\* C4: every filtered row's Division is in the selection, an empty selection
\* leaves no row, the division summary lists selected divisions only, and the
\* run shows what a run over the selected divisions' rows alone would show.
Thm_C4_OnlySelectedDivisions ==
    Rendered =>
        LET fdf == out.filtered_df
            selected == RowsAt(df, {i \in 1..Len(df) : df[i].Division \in divisions}, 1)
        IN /\ \A i \in 1..Len(fdf) : fdf[i].Division \in divisions
           /\ divisions = {} => fdf = <<>>
           /\ \A i \in 1..Len(out.division_summary) :
                out.division_summary[i].Division \in divisions
           /\ out = Script(selected, date_range, divisions, margin_threshold,
                           search_term)

\* A row inside the date range is left out for its division, another is kept.
Wit_C4_RowOfOtherDivision ==
    /\ Rendered
    /\ Len(date_range) = 2
    /\ out.filtered_df # <<>>
    /\ \E i \in 1..Len(df) :
        /\ df[i].Division \notin divisions
        /\ DateGeq(df[i].OrderDate, date_range[1])
        /\ DateLeq(df[i].OrderDate, date_range[2])

\* The term as a plain substring of the name, letter case ignored.
ContainsLiteral(name, term) ==
    \E off \in 0..(Len(name) - Len(term)) :
        \A j \in 1..Len(term) : Lower(term[j]) = Lower(name[off + j])

\* The rows of ps whose name holds term as a plain substring, case ignored.
RECURSIVE LiteralMatches(_, _)
LiteralMatches(ps, term) ==
    IF ps = <<>> THEN <<>>
    ELSE (IF ContainsLiteral(Head(ps).ProductName, term) THEN <<Head(ps)>> ELSE <<>>)
         \o LiteralMatches(Tail(ps), term)

\* C5 as stated: a run that reaches the search box shows, for a non-empty term,
\* exactly the product-summary rows whose name contains the term literally, case
\* ignored, and shows no search result for an empty term.
Cex_C5_LiteralSubstringSearch ==
    (out.status \notin {"none", "IndexError"}) =>
        IF search_term = <<>>
        THEN ~out.search_shown
        ELSE /\ out.search_shown
             /\ out.search_results = LiteralMatches(out.product_summary, search_term)

\* C6: what a run computes and shows is what it would compute and show under any
\* other value of the margin threshold.
Thm_C6_ThresholdHasNoEffect ==
    (out.status # "none") =>
        \A t \in ThresholdValues :
            Script(df, date_range, divisions, t, search_term) = out

\* The slider is at 100 and a row of margin under 100 % is in the filtered data.
Wit_C6_LowMarginRowKept ==
    /\ Rendered
    /\ margin_threshold = MaxThreshold
    /\ \E i \in 1..Len(out.filtered_df) :
        LET m == out.filtered_df[i].GrossMarginPct
        IN IsFinite(m) /\ m[1] < m[2]

\* C7: no run stops on a division: a run stops only at the filter, on a
\* one-element date range, or at the search, on a term that does not compile.
\* Every other run draws all four sections, and in the frame and in every summary
\* each ratio is the exact quotient of its own row's amounts, or inf, -inf or NaN
\* where that row's divisor is zero.
Thm_C7_ZeroDivisorIsSilent ==
    (out.status # "none") =>
        /\ out.status \in {"ok", "IndexError", "re.error"}
        /\ out.status = "IndexError" <=> Len(date_range) < 2
        /\ out.status = "re.error" =>
             \E j \in 1..Len(search_term) : search_term[j] = "("
        /\ Len(date_range) = 2 => out.sections = AllSections
        /\ \A i \in 1..Len(df) :
            /\ IsQuotient(df[i].GrossMarginPct, df[i].GrossProfit, df[i].Sales)
            /\ IsQuotient(df[i].ProfitPerUnit, df[i].GrossProfit, df[i].Units)
        /\ \A i \in 1..Len(out.product_summary) :
            LET p == out.product_summary[i]
            IN /\ IsQuotient(p.GrossMarginPct, p.GrossProfit, p.Sales)
               /\ IsQuotient(p.ProfitPerUnit, p.GrossProfit, p.Units)
        /\ \A i \in 1..Len(out.division_summary) :
            LET d == out.division_summary[i]
            IN IsQuotient(d.GrossMarginPct, d.GrossProfit, d.Sales)
        /\ \A i \in 1..Len(out.cost_df) :
            LET c == out.cost_df[i]
            IN IsQuotient(c.GrossMarginPct, c.GrossProfit, c.Sales)

\* A complete run in which one product's summed Sales is zero and another's is
\* not, and a row has no units.
Wit_C7_ZeroSalesBesideOthers ==
    /\ out.status = "ok"
    /\ out.sections = AllSections
    /\ \E i, j \in 1..Len(out.product_summary) :
        /\ out.product_summary[i].Sales = 0
        /\ Undefined(out.product_summary[i].GrossMarginPct)
        /\ out.product_summary[j].Sales # 0
        /\ IsFinite(out.product_summary[j].GrossMarginPct)
    /\ \E i \in 1..Len(out.filtered_df) :
        /\ out.filtered_df[i].Units = 0
        /\ Undefined(out.filtered_df[i].ProfitPerUnit)

\* The widgets as the first run finds them.
AtDefaults ==
    /\ date_range = <<min_date(df), max_date(df)>>
    /\ divisions = DivisionOptions(df)
    /\ margin_threshold = DefaultThreshold
    /\ search_term = <<>>

\* C8: the file is read at most once; what is memoized is the loaded records,
\* never a frame a run has worked on; every run shows what a run over a fresh
\* load would show under the same widget values, and, with the widgets back at
\* their defaults, what the first run showed.
Thm_C8_LoadedOnceAndUnchanged ==
    /\ reads <= 1
    /\ (out.status = "none") => (cache = <<>> /\ reads = 0)
    /\ (out.status # "none") =>
        /\ reads = 1
        /\ cache = load_data(file)
        /\ out = Script(DerivedMetrics(load_data(file)), date_range, divisions,
                        margin_threshold, search_term)
        /\ AtDefaults => out = first

\* The widgets were changed and are back at their defaults.
Wit_C8_BackAtDefaults ==
    /\ out.status = "ok"
    /\ touched
    /\ AtDefaults
    /\ out = first
    /\ reads = 1
    /\ df # cache

\* The day a well-formed date cell denotes.
WellFormed(cell) == \E d \in 1..Len(DateText) : DateText[d] = cell

DayOf(cell) == CHOOSE d \in 1..Len(DateText) : DateText[d] = cell

\* C9: the filtered data is the loaded rows, in order, whose Order Date cell is a
\* well-formed date d with start <= d <= end and whose Division is selected; a
\* row with a malformed date is loaded, as a missing date, and never kept.
Thm_C9_InclusiveRangeAndSelection ==
    Rendered =>
        LET kept == {i \in 1..Len(file) :
                        /\ WellFormed(file[i].OrderDate)
                        /\ date_range[1] <= DayOf(file[i].OrderDate)
                        /\ DayOf(file[i].OrderDate) <= date_range[2]
                        /\ file[i].Division \in divisions}
        IN /\ Len(df) = Len(file)
           /\ out.filtered_df = RowsAt(df, kept, 1)
           /\ \A i \in 1..Len(file) :
                ~WellFormed(file[i].OrderDate) => df[i].OrderDate = NaT

\* Under the default range, a row dated on the range's end is kept and a row of a
\* selected division with a malformed date is not.
Wit_C9_EndDateKeptMalformedDropped ==
    /\ Rendered
    /\ date_range = <<min_date(df), max_date(df)>>
    /\ \E i \in 1..Len(out.filtered_df) : out.filtered_df[i].OrderDate = date_range[2]
    /\ \E i \in 1..Len(file) :
        /\ ~WellFormed(file[i].OrderDate)
        /\ file[i].Division \in divisions
    /\ Len(out.filtered_df) < Len(df)

\* C10 as stated: the Sales and the Gross Profit of the product summary, of the
\* division summary and of the filtered rows add up to the same totals, and the
\* Pareto total is the filtered rows' total Gross Profit.
Cex_C10_TotalsConserved ==
    Rendered =>
        /\ \A col \in {"Sales", "GrossProfit"} :
            /\ Total(out.product_summary, col) = Total(out.filtered_df, col)
            /\ Total(out.division_summary, col) = Total(out.filtered_df, col)
        /\ out.total_profit = Total(out.filtered_df, "GrossProfit")

\* C10 amended: a filtered row with a Product Name is in exactly one product
\* group and one with a Division in exactly one division group, a row without
\* is in none; the summaries' totals are the totals of the filtered rows that
\* have the key, and the Pareto total is the product summary's Gross Profit.
Thm_C10_TotalsOverKeyedRows ==
    Rendered =>
        LET fdf == out.filtered_df
            ps == out.product_summary
            ds == out.division_summary
            named == {j \in 1..Len(fdf) : fdf[j].ProductName # NaName}
            placed == {j \in 1..Len(fdf) : fdf[j].Division # NaText}
        IN /\ \A j \in 1..Len(fdf) :
                /\ Cardinality({i \in 1..Len(ps) : ps[i].ProductName = fdf[j].ProductName})
                     = IF j \in named THEN 1 ELSE 0
                /\ Cardinality({i \in 1..Len(ds) : ds[i].Division = fdf[j].Division})
                     = IF j \in placed THEN 1 ELSE 0
           /\ \A col \in {"Sales", "GrossProfit"} :
                /\ Total(ps, col) = SumOver(named, fdf, col)
                /\ Total(ds, col) = SumOver(placed, fdf, col)
           /\ out.total_profit = Total(ps, "GrossProfit")
           /\ (named = 1..Len(fdf) /\ placed = 1..Len(fdf)) =>
                /\ Total(ps, "Sales") = Total(ds, "Sales")
                /\ Total(ps, "GrossProfit") = Total(ds, "GrossProfit")
                /\ out.total_profit = Total(fdf, "GrossProfit")

\* Two filtered rows of one division, one of them without a Product Name: the
\* product summary holds the other row alone, the division summary both.
Wit_C10_RowWithoutProductName ==
    /\ Rendered
    /\ Len(out.filtered_df) = 2
    /\ \E j \in 1..2 : out.filtered_df[j].ProductName = NaName
    /\ Len(out.product_summary) = 1
    /\ Len(out.division_summary) = 1
    /\ Total(out.product_summary, "Sales") # Total(out.filtered_df, "Sales")
    /\ Total(out.division_summary, "Sales") = Total(out.filtered_df, "Sales")
    /\ out.total_profit # 0

====
